---- MODULE Spec2Model ----
(***************************************************************************)
(* The bulk-operation executors of gmail-cleaner: mark_emails_as_read,     *)
(* apply_label_to_senders_background, remove_label_from_senders_background *)
(* and mark_important_background, with the three status dictionaries they  *)
(* publish to and the Gmail client they call.                              *)
(*                                                                         *)
(* One executor runs at a time.  Its position is pc: "idle" before a run,  *)
(* "returned" after it, otherwise the line of the source file it is about  *)
(* to execute (mr.. = mark_read.py, lb.. = labels.py, im.. = important.py; *)
(* for the two label executors the line is that of the apply function and  *)
(* op tells them apart).  Every write of a status field and every call of  *)
(* the client is a step of its own, because a poller thread can read the   *)
(* status between any two of them.                                         *)
(***************************************************************************)
EXTENDS Integers, Sequences, FiniteSets, TLC

VARIABLES
    mark_read_status,        \* state.mark_read_status
    label_operation_status,  \* state.label_operation_status
    important_status,        \* state.important_status
    pc,                      \* position of the running executor
    op,                      \* which executor was invoked
    args,                    \* its arguments
    loc,                     \* its local variables
    listLog,                 \* messages().list calls issued, in order
    batchLog,                \* messages().batchModify calls issued, in order
    sleeps,                  \* time.sleep calls: the chunk offsets j they followed
    scope,                   \* the mailboxes and sender lists of this session
    prior,                   \* kind and terminal snapshot of the previous run
    polled                   \* the dictionary a poller got from a getter

vars == <<mark_read_status, label_operation_status, important_status,
          pc, op, args, loc, listLog, batchLog, sleeps, scope, prior, polled>>

-----------------------------------------------------------------------------
(* Bounds of the model *)

MaxSenders == 2

\* The mailboxes the provider may hold for one query, as the sizes of the
\* pages it serves; a page carries nextPageToken iff another page follows.
PageLayouts ==
    { <<0>>, <<7>>, <<500>>, <<0, 7>>, <<500, 7>>, <<500, 500>>, <<500, 500, 7>> }

\* The count arguments tried for mark_emails_as_read.
Counts == {0 - 1, 0, 150, 500, 507}

\* The label_id arguments tried.
LabelIds == {"", " ", "L1"}

Sender(k) == "s" \o ToString(k) \o "@x.com"

\* The sender lists tried: the first n of s1@x.com, s2@x.com, ...
SenderLists == { [k \in 1..n |-> Sender(k)] : n \in 0..MaxSenders }

-----------------------------------------------------------------------------
(* Program constants *)

MAX_RESULTS == 500          \* maxResults of every list call
MARK_READ_BATCH == 100      \* batch_size of mark_emails_as_read
LABEL_BATCH == 1000         \* batch_size of the label executors
IMPORTANT_BATCH == 100      \* range step of mark_important_background
SLEEP_EVERY == 500          \* j % 500 == 0
ERRORS_SHOWN == 3           \* errors[:3]

None == "(None)"            \* Python's None, where a string may stand

\* What the collaborators outside the repository say when they fail.
AuthErr == "Not authenticated"
ListErr == "HttpError 500 (list)"
BatchErr == "HttpError 429 (batchModify)"

-----------------------------------------------------------------------------
(* Pure helpers *)

Min(a, b) == IF a < b THEN a ELSE b

\* A percentage where a share of k was meant.
PyIntPercent(a, b, k) == (a * 100) \div b

\* int((a / b) * k) for 0 <= a <= b, b > 0: Python divides in floating point
\* and truncates; for every a, b the model reaches the result equals the
\* integer quotient (checked against CPython for b < 5000, k in {40,60,100}).
PyIntScaled(a, b, k) == (a * k) \div b

\* A slice whose end is taken as inclusive.
PySliceInclusive(seq, i, n) == SubSeq(seq, i + 1, Min(i + n + 1, Len(seq)))

\* seq[i : i + n] with a 0-based start i, as Python slices: clipped at the end.
PySlice(seq, i, n) == SubSeq(seq, i + 1, Min(i + n, Len(seq)))

\* seq[:n]
PyHead(seq, n) == SubSeq(seq, 1, Min(n, Len(seq)))

\* "; ".join(strs)
RECURSIVE JoinSemi(_)
JoinSemi(strs) ==
    IF strs = <<>> THEN ""
    ELSE IF Len(strs) = 1 THEN strs[1]
    ELSE strs[1] \o "; " \o JoinSemi(Tail(strs))

\* Message ids are opaque and unique; the provider of the model numbers them
\* by query (s: 0 for the mark-read query, k for the k-th sender's query) and
\* by position in the query's result.
IdStride == 20 * MAX_RESULTS
PageIds(s, off, n) == [k \in 1..n |-> s * IdStride + off + k]

-----------------------------------------------------------------------------
(* The provider: messages().list *)

\* The sizes of the pages already served for query s in this run.
RECURSIVE ServedSizes(_, _)
ServedSizes(log, s) ==
    IF log = <<>> THEN <<>>
    ELSE LET rest == ServedSizes(SubSeq(log, 1, Len(log) - 1), s)
             e == log[Len(log)]
         IN IF e.s = s /\ e.ok THEN Append(rest, e.n) ELSE rest

RECURSIVE SumSeq(_)
SumSeq(q) == IF q = <<>> THEN 0 ELSE q[1] + SumSeq(Tail(q))

IsPrefix(p, q) == Len(p) <= Len(q) /\ SubSeq(q, 1, Len(p)) = p

\* The responses the provider may give to the next list call for query s:
\* a page of n ids with or without a nextPageToken.
ListResponses(s) ==
    LET served == ServedSizes(listLog, s)
    IN { [n |-> L[Len(served) + 1], next |-> Len(L) > Len(served) + 1] :
           L \in { M \in scope.layouts :
                     /\ Len(M) > Len(served) /\ IsPrefix(served, M)
                     /\ M[Len(served) + 1] \in 0..MAX_RESULTS } }

ListOk(s, r) ==
    [s |-> s, ok |-> TRUE, off |-> SumSeq(ServedSizes(listLog, s)),
     n |-> r.n, next |-> r.next]

ListFailed(s) ==
    [s |-> s, ok |-> FALSE, off |-> SumSeq(ServedSizes(listLog, s)),
     n |-> 0, next |-> FALSE]

\* result.get("messages", []) of the response logged as e
Messages(e) == PageIds(e.s, e.off, e.n)

-----------------------------------------------------------------------------
(* state.py: the status dictionaries and their resets *)

MarkReadDefaults ==
    [progress |-> 0, message |-> "", done |-> FALSE, error |-> None,
     marked_count |-> 0]

LabelOperationDefaults ==
    [progress |-> 0, message |-> "", done |-> FALSE, error |-> None,
     affected_count |-> 0, total_senders |-> 0, current_sender |-> 0]

ImportantDefaults ==
    [progress |-> 0, message |-> "", done |-> FALSE, error |-> None,
     affected_count |-> 0, total_senders |-> 0, current_sender |-> 0]

NoArgs == [count |-> 0, label_id |-> "", senders |-> <<>>, important |-> TRUE]

NoLocals ==
    [error |-> None, i |-> 0, j |-> 0, messages |-> <<>>, has_token |-> FALSE,
     all_message_ids |-> <<>>, errors |-> <<>>, total |-> 0, affected |-> 0]

\* Every mailbox and every sender list of the bounds.
FullScope == [layouts |-> PageLayouts, senders |-> SenderLists]

\* The sessions of more than one run, and those with a poller, are explored
\* with up to two senders and three mailboxes: empty, one page, two pages.
NarrowScope ==
    [layouts |-> { <<0>>, <<7>>, <<500, 7>> },
     senders |-> { <<>>, <<Sender(1)>>, <<Sender(1), Sender(2)>> }]

\* No run has returned yet; no getter has been called yet.
NoPrior == [op |-> "none", status |-> [done |-> FALSE]]
NoHandle == [kind |-> "none", alias |-> FALSE, edited |-> FALSE,
             val |-> [done |-> FALSE]]

Fresh ==
    /\ mark_read_status = MarkReadDefaults
    /\ label_operation_status = LabelOperationDefaults
    /\ important_status = ImportantDefaults
    /\ pc = "idle"
    /\ op = "none"
    /\ args = NoArgs
    /\ loc = NoLocals
    /\ listLog = <<>>
    /\ batchLog = <<>>
    /\ sleeps = <<>>
    /\ prior = NoPrior
    /\ polled = NoHandle

Init == Fresh /\ scope = FullScope

NarrowInit == Fresh /\ scope = NarrowScope

\* What a step that calls nothing leaves alone.
NoCall == UNCHANGED <<listLog, batchLog, sleeps>>

\* What no step of an executor touches.
Session == UNCHANGED <<scope, prior, polled>>

-----------------------------------------------------------------------------
(* mark_read.py: mark_emails_as_read(count, filters) *)

MarkReadOthers == UNCHANGED <<label_operation_status, important_status>> /\ Session

MarkReadWrite(field, value, next) ==
    /\ mark_read_status' = [mark_read_status EXCEPT ![field] = value]
    /\ pc' = next
    /\ UNCHANGED <<op, args, loc>>
    /\ NoCall
    /\ MarkReadOthers

\* The call with reset_mark_read() only past the validation.
MarkReadStartLateReset ==
    /\ pc = "idle"
    /\ \E count \in Counts :
         /\ args' = [NoArgs EXCEPT !.count = count]
         /\ pc' = IF count < 0 THEN "mr45" ELSE "mr50"
         /\ mark_read_status' =
               IF count < 0 THEN mark_read_status ELSE MarkReadDefaults
    /\ op' = "mark_read"
    /\ loc' = NoLocals
    /\ NoCall
    /\ MarkReadOthers

\* Lines 42-49: the call, and reset_mark_read() on either side of the
\* validation.
MarkReadStart ==
    /\ pc = "idle"
    /\ \E count \in Counts :
         /\ args' = [NoArgs EXCEPT !.count = count]
         /\ pc' = IF count < 0 THEN "mr45" ELSE "mr50"
    /\ op' = "mark_read"
    /\ mark_read_status' = MarkReadDefaults
    /\ loc' = NoLocals
    /\ NoCall
    /\ MarkReadOthers

MarkReadInvalidError ==
    pc = "mr45" /\ MarkReadWrite("error", "Count must be 0 or greater", "mr46")

MarkReadInvalidDone ==
    pc = "mr46" /\ MarkReadWrite("done", TRUE, "returned")

MarkReadConnecting ==
    pc = "mr50" /\ MarkReadWrite("message", "Connecting to Gmail...", "mr52")

\* Line 52: service, error = get_gmail_service()
MarkReadAuth ==
    /\ pc = "mr52"
    /\ \E error \in {None, AuthErr} :
         /\ loc' = [loc EXCEPT !.error = error]
         /\ pc' = IF error # None THEN "mr54" ELSE "mr59"
    /\ UNCHANGED <<mark_read_status, op, args>>
    /\ NoCall
    /\ MarkReadOthers

MarkReadAuthError ==
    pc = "mr54" /\ MarkReadWrite("error", loc.error, "mr55")

MarkReadAuthDone ==
    pc = "mr55" /\ MarkReadWrite("done", TRUE, "returned")

MarkReadFinding ==
    pc = "mr59" /\ MarkReadWrite("message", "Finding unread emails...", "mr71")

\* count = 0 taken as a limit of zero.
MarkAllNever == FALSE

\* Lines 67-68: mark_all = count == 0; limit = count or infinity.
MarkAll == args.count = 0

\* No page after the first is asked for.
BelowLimitNever(n) == FALSE

\* len(messages) <= limit
BelowLimitInclusive(n) == MarkAll \/ n <= args.count

\* Line 81: len(messages) < limit.
BelowLimit(n) == MarkAll \/ n < args.count

\* The fetched pages kept whole.
TrimmedNever(messages) == messages

\* Lines 96-98: messages = messages[:count] unless marking all.
Trimmed(messages) == IF MarkAll THEN messages ELSE PyHead(messages, args.count)

\* After a page: the while test of line 81, and past the loop the trim of
\* lines 96-98 and the test of line 100.
MarkReadAfterPage(messages, has_token) ==
    IF has_token /\ BelowLimit(Len(messages))
    THEN /\ loc' = [loc EXCEPT !.messages = messages, !.has_token = has_token]
         /\ pc' = "mr82"
    ELSE /\ loc' = [loc EXCEPT !.messages = Trimmed(messages),
                               !.has_token = has_token,
                               !.total = Len(Trimmed(messages)),
                               !.i = 0, !.affected = 0]
         /\ pc' = IF Len(Trimmed(messages)) = 0 THEN "mr101" ELSE "mr113"

\* Lines 71-78 (the first page) and 82-93 (the pages that follow): one list
\* call, which returns a page or raises into the except of line 126.
MarkReadList ==
    /\ pc \in {"mr71", "mr82"}
    /\ \/ \E r \in ListResponses(0) :
            /\ listLog' = Append(listLog, ListOk(0, r))
            /\ MarkReadAfterPage(
                 (IF pc = "mr71" THEN <<>> ELSE loc.messages)
                    \o Messages(ListOk(0, r)), r.next)
       \/ /\ listLog' = Append(listLog, ListFailed(0))
          /\ loc' = [loc EXCEPT !.error = ListErr]
          /\ pc' = "mr127"
    /\ UNCHANGED <<mark_read_status, op, args, batchLog, sleeps>>
    /\ MarkReadOthers

MarkReadNoneFound ==
    pc = "mr101" /\ MarkReadWrite("message", "No unread emails found", "mr102")

MarkReadNoneDone ==
    pc = "mr102" /\ MarkReadWrite("done", TRUE, "returned")

\* Lines 109-117: one chunk, batch = messages[i : i + batch_size], sent in one
\* batchModify call; marked += len(ids) when it returns.
MarkReadBatch ==
    /\ pc = "mr113"
    /\ LET ids == PySlice(loc.messages, loc.i, MARK_READ_BATCH)
       IN \/ /\ batchLog' = Append(batchLog,
                    [ids |-> ids, ok |-> TRUE, lists |-> Len(listLog)])
             /\ loc' = [loc EXCEPT !.affected = @ + Len(ids)]
             /\ pc' = "mr119"
          \/ /\ batchLog' = Append(batchLog,
                    [ids |-> ids, ok |-> FALSE, lists |-> Len(listLog)])
             /\ loc' = [loc EXCEPT !.error = BatchErr]
             /\ pc' = "mr127"
    /\ UNCHANGED <<mark_read_status, op, args, listLog, sleeps>>
    /\ MarkReadOthers

MarkReadProgress ==
    /\ pc = "mr119"
    /\ MarkReadWrite("progress", PyIntScaled(loc.affected, loc.total, 100), "mr120")

MarkReadProgressMessage ==
    /\ pc = "mr120"
    /\ MarkReadWrite("message",
          "Marked " \o ToString(loc.affected) \o "/" \o ToString(loc.total)
              \o " as read", "mr121")

\* Line 121, and the step of the for loop of line 109.
MarkReadCount ==
    /\ pc = "mr121"
    /\ mark_read_status' = [mark_read_status EXCEPT !.marked_count = loc.affected]
    /\ loc' = [loc EXCEPT !.i = @ + MARK_READ_BATCH]
    /\ pc' = IF loc.i + MARK_READ_BATCH < loc.total THEN "mr113" ELSE "mr123"
    /\ UNCHANGED <<op, args>>
    /\ NoCall
    /\ MarkReadOthers

MarkReadDoneMessage ==
    /\ pc = "mr123"
    /\ MarkReadWrite("message",
          "Done! Marked " \o ToString(loc.affected) \o " emails as read", "mr124")

MarkReadDone ==
    pc = "mr124" /\ MarkReadWrite("done", TRUE, "returned")

\* Lines 126-128: except Exception as e
MarkReadExceptError ==
    pc = "mr127" /\ MarkReadWrite("error", loc.error, "mr128")

MarkReadExceptDone ==
    pc = "mr128" /\ MarkReadWrite("done", TRUE, "returned")

MarkRead ==
    \/ MarkReadStart \/ MarkReadInvalidError \/ MarkReadInvalidDone
    \/ MarkReadConnecting \/ MarkReadAuth \/ MarkReadAuthError
    \/ MarkReadAuthDone \/ MarkReadFinding \/ MarkReadList
    \/ MarkReadNoneFound \/ MarkReadNoneDone \/ MarkReadBatch
    \/ MarkReadProgress \/ MarkReadProgressMessage \/ MarkReadCount
    \/ MarkReadDoneMessage \/ MarkReadDone
    \/ MarkReadExceptError \/ MarkReadExceptDone

-----------------------------------------------------------------------------
(* labels.py: apply_label_to_senders_background(label_id, senders) and        *)
(* remove_label_from_senders_background(label_id, senders).  The two differ *)
(* in the query, the field of the batchModify body and the messages; the    *)
(* line numbers are those of the apply function.                            *)

LabelOthers == UNCHANGED <<mark_read_status, important_status>> /\ Session

LabelWrite(field, value, next) ==
    /\ label_operation_status' = [label_operation_status EXCEPT ![field] = value]
    /\ pc' = next
    /\ UNCHANGED <<op, args, loc>>
    /\ NoCall
    /\ LabelOthers

\* not label_id, without the strip()
BlankLabelNoStrip(label_id) == label_id = ""

\* not label_id or not label_id.strip()
BlankLabel(label_id) == label_id \in {"", " "}

\* Lines 111-124 (221-234): the call, reset_label_operation() and the two
\* validations, up to the first write that follows them.
LabelStart ==
    /\ pc = "idle"
    /\ \E kind \in {"apply_label", "remove_label"}, label_id \in LabelIds,
          senders \in scope.senders :
         /\ op' = kind
         /\ args' = [NoArgs EXCEPT !.label_id = label_id, !.senders = senders]
         /\ pc' = IF BlankLabel(label_id) THEN "lb114"
                  ELSE IF senders = <<>> THEN "lb120"
                  ELSE "lb124"
    /\ label_operation_status' = LabelOperationDefaults
    /\ loc' = NoLocals
    /\ NoCall
    /\ LabelOthers

LabelNoIdDone ==
    pc = "lb114" /\ LabelWrite("done", TRUE, "lb115")

LabelNoIdError ==
    pc = "lb115" /\ LabelWrite("error", "Label ID is required", "returned")

LabelNoSendersDone ==
    pc = "lb120" /\ LabelWrite("done", TRUE, "lb121")

LabelNoSendersError ==
    pc = "lb121" /\ LabelWrite("error", "No senders specified", "returned")

\* Line 124: service, error = get_gmail_service()
LabelAuth ==
    /\ pc = "lb124"
    /\ \E error \in {None, AuthErr} :
         /\ loc' = [loc EXCEPT !.error = error]
         /\ pc' = IF error # None THEN "lb126" ELSE "lb131"
    /\ UNCHANGED <<label_operation_status, op, args>>
    /\ NoCall
    /\ LabelOthers

LabelAuthDone ==
    pc = "lb126" /\ LabelWrite("done", TRUE, "lb127")

LabelAuthError ==
    pc = "lb127" /\ LabelWrite("error", loc.error, "returned")

LabelTotalSenders ==
    pc = "lb131" /\ LabelWrite("total_senders", Len(args.senders), "lb132")

\* Line 132, and lines 135-138: all_message_ids = [], errors = [], i = 0.
LabelFindingAll ==
    /\ pc = "lb132"
    /\ label_operation_status' =
         [label_operation_status EXCEPT !.message =
             IF op = "apply_label" THEN "Finding emails to label..."
             ELSE "Finding emails to unlabel..."]
    /\ loc' = [loc EXCEPT !.i = 0, !.all_message_ids = <<>>, !.errors = <<>>]
    /\ pc' = "lb139"
    /\ UNCHANGED <<op, args>>
    /\ NoCall
    /\ LabelOthers

\* current_sender = i, the 0-based index.
LabelCurrentSenderZeroBased ==
    pc = "lb139" /\ LabelWrite("current_sender", loc.i, "lb140")

LabelCurrentSender ==
    pc = "lb139" /\ LabelWrite("current_sender", loc.i + 1, "lb140")

LabelSearchProgress ==
    /\ pc = "lb140"
    /\ LabelWrite("progress", PyIntScaled(loc.i, Len(args.senders), 40), "lb141")

LabelSearchMessage ==
    /\ pc = "lb141"
    /\ LabelWrite("message",
          "Finding emails from " \o args.senders[loc.i + 1] \o "...", "lb145")

\* Mutation entered as soon as some sender's ids are known.
LabelNextSenderEager(all_ids) ==
    IF all_ids # <<>> THEN "lb179"
    ELSE IF loc.i + 1 < Len(args.senders) THEN "lb139"
    ELSE "lb172"

\* Past the body of the for loop of line 138: the next sender, or past the
\* loop the test of line 171 and total_emails, labeled = 0 of lines 178-184.
LabelNextSender(all_ids) ==
    IF loc.i + 1 < Len(args.senders) THEN "lb139"
    ELSE IF all_ids = <<>> THEN "lb172"
    ELSE "lb179"

\* The search whose except keeps the pages fetched before the raise.
LabelListKeepsPartial ==
    /\ pc \in {"lb145", "lb154"}
    /\ LET s == loc.i + 1
           sofar == IF pc = "lb145" THEN <<>> ELSE loc.messages
       IN \/ \E r \in ListResponses(s) :
               /\ listLog' = Append(listLog, ListOk(s, r))
               /\ LET messages == sofar \o Messages(ListOk(s, r))
                  IN IF r.next
                     THEN /\ loc' = [loc EXCEPT !.messages = messages,
                                                !.has_token = TRUE]
                          /\ pc' = "lb154"
                     ELSE /\ loc' = [loc EXCEPT
                                !.messages = messages,
                                !.has_token = FALSE,
                                !.all_message_ids = @ \o messages,
                                !.i = @ + 1,
                                !.total = Len(loc.all_message_ids \o messages),
                                !.j = 0, !.affected = 0]
                          /\ pc' = LabelNextSender(loc.all_message_ids \o messages)
          \/ /\ listLog' = Append(listLog, ListFailed(s))
             /\ loc' = [loc EXCEPT
                   !.errors = Append(@, args.senders[s] \o ": " \o ListErr),
                   !.all_message_ids = @ \o sofar,
                   !.i = @ + 1,
                   !.total = Len(loc.all_message_ids \o sofar),
                   !.j = 0, !.affected = 0]
             /\ pc' = LabelNextSender(loc.all_message_ids \o sofar)
    /\ UNCHANGED <<label_operation_status, op, args, batchLog, sleeps>>
    /\ LabelOthers

\* Lines 145-150 (the first page) and 154-165 (the pages that follow): one
\* list call.  A page without nextPageToken ends the search and line 167 adds
\* the sender's ids to all_message_ids; a raise goes to line 169, which
\* records the sender and drops the pages already fetched.
LabelList ==
    /\ pc \in {"lb145", "lb154"}
    /\ LET s == loc.i + 1
           sofar == IF pc = "lb145" THEN <<>> ELSE loc.messages
       IN \/ \E r \in ListResponses(s) :
               /\ listLog' = Append(listLog, ListOk(s, r))
               /\ LET messages == sofar \o Messages(ListOk(s, r))
                  IN IF r.next
                     THEN /\ loc' = [loc EXCEPT !.messages = messages,
                                                !.has_token = TRUE]
                          /\ pc' = "lb154"
                     ELSE /\ loc' = [loc EXCEPT
                                !.messages = messages,
                                !.has_token = FALSE,
                                !.all_message_ids = @ \o messages,
                                !.i = @ + 1,
                                !.total = Len(loc.all_message_ids \o messages),
                                !.j = 0, !.affected = 0]
                          /\ pc' = LabelNextSender(loc.all_message_ids \o messages)
          \/ /\ listLog' = Append(listLog, ListFailed(s))
             /\ loc' = [loc EXCEPT
                   !.errors = Append(@, args.senders[s] \o ": " \o ListErr),
                   !.i = @ + 1,
                   !.total = Len(loc.all_message_ids),
                   !.j = 0, !.affected = 0]
             /\ pc' = LabelNextSender(loc.all_message_ids)
    /\ UNCHANGED <<label_operation_status, op, args, batchLog, sleeps>>
    /\ LabelOthers

LabelNoneProgress ==
    pc = "lb172" /\ LabelWrite("progress", 100, "lb173")

LabelNoneDone ==
    pc = "lb173" /\ LabelWrite("done", TRUE, "lb174")

LabelNoneMessage ==
    /\ pc = "lb174"
    /\ LabelWrite("message",
          IF op = "apply_label" THEN "No emails found to label"
          ELSE "No emails found with this label", "returned")

\* done = True written where line 179 writes the message.
LabelApplyingDone ==
    pc = "lb179" /\ LabelWrite("done", TRUE, "lb189")

LabelApplyingMessage ==
    /\ pc = "lb179"
    /\ LabelWrite("message",
          (IF op = "apply_label" THEN "Applying label to "
           ELSE "Removing label from ") \o ToString(loc.total) \o " emails...",
          "lb189")

\* The chunk loop that sends a chunk again after its first failed call.
LabelBatchRetriesOnce ==
    /\ pc = "lb189"
    /\ LET batch == PySlice(loc.all_message_ids, loc.j, LABEL_BATCH)
       IN \/ /\ batchLog' = Append(batchLog,
                    [ids |-> batch, ok |-> TRUE, lists |-> Len(listLog)])
             /\ loc' = [loc EXCEPT !.affected = @ + Len(batch)]
             /\ pc' = "lb193"
          \/ /\ batchLog' = Append(batchLog,
                    [ids |-> batch, ok |-> FALSE, lists |-> Len(listLog)])
             /\ loc' = [loc EXCEPT !.errors = Append(@,
                    (IF op = "apply_label" THEN "Batch label error: "
                     ELSE "Batch unlabel error: ") \o BatchErr)]
             /\ pc' = IF \E k \in 1..Len(batchLog) : ~batchLog[k].ok
                      THEN "lb204" ELSE "lb189"
    /\ UNCHANGED <<label_operation_status, op, args, listLog, sleeps>>
    /\ LabelOthers

\* Lines 186-201: one chunk, batch = all_message_ids[i : i + batch_size], sent
\* in one batchModify call; labeled += len(batch) when it returns.  A raise
\* leaves the for loop for the except of line 200.
LabelBatch ==
    /\ pc = "lb189"
    /\ LET batch == PySlice(loc.all_message_ids, loc.j, LABEL_BATCH)
       IN \/ /\ batchLog' = Append(batchLog,
                    [ids |-> batch, ok |-> TRUE, lists |-> Len(listLog)])
             /\ loc' = [loc EXCEPT !.affected = @ + Len(batch)]
             /\ pc' = "lb193"
          \/ /\ batchLog' = Append(batchLog,
                    [ids |-> batch, ok |-> FALSE, lists |-> Len(listLog)])
             /\ loc' = [loc EXCEPT !.errors = Append(@,
                    (IF op = "apply_label" THEN "Batch label error: "
                     ELSE "Batch unlabel error: ") \o BatchErr)]
             /\ pc' = "lb204"
    /\ UNCHANGED <<label_operation_status, op, args, listLog, sleeps>>
    /\ LabelOthers

LabelBatchCount ==
    pc = "lb193" /\ LabelWrite("affected_count", loc.affected, "lb194")

\* The chunk loop's progress without the 40 of the search phase.
LabelBatchProgressNoBase ==
    /\ pc = "lb194"
    /\ LabelWrite("progress", PyIntScaled(loc.affected, loc.total, 60), "lb197")

LabelBatchProgress ==
    /\ pc = "lb194"
    /\ LabelWrite("progress", 40 + PyIntScaled(loc.affected, loc.total, 60), "lb197")

\* Line 197, and the step of the for loop of line 187.
LabelBatchMessage ==
    /\ pc = "lb197"
    /\ label_operation_status' =
         [label_operation_status EXCEPT !.message =
             (IF op = "apply_label" THEN "Labeled " ELSE "Unlabeled ")
                \o ToString(loc.affected) \o "/" \o ToString(loc.total)
                \o " emails..."]
    /\ loc' = [loc EXCEPT !.j = @ + LABEL_BATCH]
    /\ pc' = IF loc.j + LABEL_BATCH < loc.total THEN "lb189" ELSE "lb204"
    /\ UNCHANGED <<op, args>>
    /\ NoCall
    /\ LabelOthers

LabelFinalProgress ==
    pc = "lb204" /\ LabelWrite("progress", 100, "lb205")

LabelFinalDone ==
    pc = "lb205" /\ LabelWrite("done", TRUE, "lb206")

\* Line 206, and the test of line 208.
LabelFinalCount ==
    /\ pc = "lb206"
    /\ LabelWrite("affected_count", loc.affected,
          IF loc.errors # <<>> THEN "lb209" ELSE "lb214")

LabelFinalError ==
    /\ pc = "lb209"
    /\ LabelWrite("error",
          "Some errors: " \o JoinSemi(PyHead(loc.errors, ERRORS_SHOWN)), "lb210")

LabelFinalErrorMessage ==
    /\ pc = "lb210"
    /\ LabelWrite("message",
          (IF op = "apply_label" THEN "Labeled " ELSE "Unlabeled ")
             \o ToString(loc.affected) \o " emails with some errors", "returned")

LabelFinalMessage ==
    /\ pc = "lb214"
    /\ LabelWrite("message",
          (IF op = "apply_label" THEN "Successfully labeled "
           ELSE "Successfully removed label from ")
             \o ToString(loc.affected) \o " emails", "returned")

Label ==
    \/ LabelStart \/ LabelNoIdDone \/ LabelNoIdError
    \/ LabelNoSendersDone \/ LabelNoSendersError
    \/ LabelAuth \/ LabelAuthDone \/ LabelAuthError
    \/ LabelTotalSenders \/ LabelFindingAll
    \/ LabelCurrentSender \/ LabelSearchProgress \/ LabelSearchMessage
    \/ LabelList
    \/ LabelNoneProgress \/ LabelNoneDone \/ LabelNoneMessage
    \/ LabelApplyingMessage \/ LabelBatch
    \/ LabelBatchCount \/ LabelBatchProgress \/ LabelBatchMessage
    \/ LabelFinalProgress \/ LabelFinalDone \/ LabelFinalCount
    \/ LabelFinalError \/ LabelFinalErrorMessage \/ LabelFinalMessage

-----------------------------------------------------------------------------

-----------------------------------------------------------------------------
(* important.py: mark_important_background(senders, important) *)

ImportantOthers == UNCHANGED <<mark_read_status, label_operation_status>> /\ Session

ImportantWrite(field, value, next) ==
    /\ important_status' = [important_status EXCEPT ![field] = value]
    /\ pc' = next
    /\ UNCHANGED <<op, args, loc>>
    /\ NoCall
    /\ ImportantOthers

\* The call with a reset that clears the label status as well.
ImportantStartResetsLabel ==
    /\ pc = "idle"
    /\ \E senders \in scope.senders, important \in BOOLEAN :
         /\ args' = [NoArgs EXCEPT !.senders = senders, !.important = important]
         /\ pc' = IF senders = <<>> THEN "im19" ELSE "im23"
    /\ op' = "mark_important"
    /\ important_status' = ImportantDefaults
    /\ label_operation_status' = LabelOperationDefaults
    /\ loc' = NoLocals
    /\ NoCall
    /\ UNCHANGED mark_read_status
    /\ Session

\* Lines 15-18: the call, reset_important() and the validation.
ImportantStart ==
    /\ pc = "idle"
    /\ \E senders \in scope.senders, important \in BOOLEAN :
         /\ args' = [NoArgs EXCEPT !.senders = senders, !.important = important]
         /\ pc' = IF senders = <<>> THEN "im19" ELSE "im23"
    /\ op' = "mark_important"
    /\ important_status' = ImportantDefaults
    /\ loc' = NoLocals
    /\ NoCall
    /\ ImportantOthers

ImportantNoSendersDone ==
    pc = "im19" /\ ImportantWrite("done", TRUE, "im20")

ImportantNoSendersError ==
    pc = "im20" /\ ImportantWrite("error", "No senders specified", "returned")

ImportantTotalSenders ==
    pc = "im23" /\ ImportantWrite("total_senders", Len(args.senders), "im25")

\* Line 24: action
Action == IF args.important THEN "Marking" ELSE "Unmarking"

ImportantMessage ==
    pc = "im25" /\ ImportantWrite("message", Action \o " as important...", "im28")

\* The error of get_gmail_service() left unchecked.
ImportantAuthIgnored ==
    /\ pc = "im28"
    /\ \E error \in {None, AuthErr} :
         /\ loc' = [loc EXCEPT !.error = error, !.affected = 0, !.i = 0]
         /\ pc' = "im38"
    /\ UNCHANGED <<important_status, op, args>>
    /\ NoCall
    /\ ImportantOthers

\* Line 28: service, error = get_gmail_service(); then total_affected = 0 and
\* the first sender of the for loop of line 37.
ImportantAuth ==
    /\ pc = "im28"
    /\ \E error \in {None, AuthErr} :
         /\ loc' = [loc EXCEPT !.error = error, !.affected = 0, !.i = 0]
         /\ pc' = IF error # None THEN "im30" ELSE "im38"
    /\ UNCHANGED <<important_status, op, args>>
    /\ NoCall
    /\ ImportantOthers

ImportantAuthError ==
    pc = "im30" /\ ImportantWrite("error", loc.error, "im31")

ImportantAuthDone ==
    pc = "im31" /\ ImportantWrite("done", TRUE, "returned")

ImportantCurrentSender ==
    pc = "im38" /\ ImportantWrite("current_sender", loc.i + 1, "im39")

ImportantSenderMessage ==
    /\ pc = "im39"
    /\ ImportantWrite("message",
          Action \o " emails from " \o args.senders[loc.i + 1] \o "...", "im40")

\* Line 40, and message_ids = [], page_token = None of lines 44-45.
ImportantSenderProgress ==
    /\ pc = "im40"
    /\ important_status' =
         [important_status EXCEPT !.progress =
             PyIntScaled(loc.i, Len(args.senders), 100)]
    /\ loc' = [loc EXCEPT !.messages = <<>>, !.has_token = FALSE]
    /\ pc' = "im48"
    /\ UNCHANGED <<op, args>>
    /\ NoCall
    /\ ImportantOthers

\* The next iteration of the for loop of line 37, or line 76 past it.
ImportantNextSender == IF loc.i + 1 < Len(args.senders) THEN "im38" ELSE "im76"

\* The search that goes on to submit a chunk when nothing was found.
ImportantListNoSkip ==
    /\ pc = "im48"
    /\ LET s == loc.i + 1
       IN \/ \E r \in ListResponses(s) :
               /\ listLog' = Append(listLog, ListOk(s, r))
               /\ LET message_ids == loc.messages \o Messages(ListOk(s, r))
                  IN IF r.next
                     THEN /\ loc' = [loc EXCEPT !.messages = message_ids,
                                                !.has_token = TRUE]
                          /\ pc' = "im48"
                     ELSE /\ loc' = [loc EXCEPT !.messages = message_ids,
                                                !.has_token = FALSE,
                                                !.j = 0]
                          /\ pc' = "im68"
          \/ /\ listLog' = Append(listLog, ListFailed(s))
             /\ loc' = [loc EXCEPT !.error = ListErr]
             /\ pc' = "im83"
    /\ UNCHANGED <<important_status, op, args, batchLog, sleeps>>
    /\ ImportantOthers

\* Lines 47-63: one list call of the while loop.  A page without
\* nextPageToken ends the search: with no ids the sender is skipped
\* (continue), otherwise the chunk loop of line 66 starts at j = 0.  A raise
\* goes to the except of line 82.
ImportantList ==
    /\ pc = "im48"
    /\ LET s == loc.i + 1
       IN \/ \E r \in ListResponses(s) :
               /\ listLog' = Append(listLog, ListOk(s, r))
               /\ LET message_ids == loc.messages \o Messages(ListOk(s, r))
                  IN IF r.next
                     THEN /\ loc' = [loc EXCEPT !.messages = message_ids,
                                                !.has_token = TRUE]
                          /\ pc' = "im48"
                     ELSE IF message_ids = <<>>
                     THEN /\ loc' = [loc EXCEPT !.messages = message_ids,
                                                !.has_token = FALSE,
                                                !.i = @ + 1]
                          /\ pc' = ImportantNextSender
                     ELSE /\ loc' = [loc EXCEPT !.messages = message_ids,
                                                !.has_token = FALSE,
                                                !.j = 0]
                          /\ pc' = "im68"
          \/ /\ listLog' = Append(listLog, ListFailed(s))
             /\ loc' = [loc EXCEPT !.error = ListErr]
             /\ pc' = "im83"
    /\ UNCHANGED <<important_status, op, args, batchLog, sleeps>>
    /\ ImportantOthers

\* Line 73: if j > 0 and j % 500 == 0
Throttled(j) == j > 0 /\ j % SLEEP_EVERY = 0

\* Past the chunk at offset j, with the locals l: the next chunk, or past
\* the chunk loop the next sender.
ImportantAfterChunk(l) ==
    IF l.j + IMPORTANT_BATCH < Len(l.messages)
    THEN /\ loc' = [l EXCEPT !.j = @ + IMPORTANT_BATCH]
         /\ pc' = "im68"
    ELSE /\ loc' = [l EXCEPT !.i = @ + 1]
         /\ pc' = ImportantNextSender

\* Lines 67-73: one chunk, batch_ids = message_ids[j : j + 100], sent in one
\* batchModify call; total_affected += len(batch_ids) when it returns, and
\* then the test of line 73.  A raise goes to the except of line 82.
ImportantBatch ==
    /\ pc = "im68"
    /\ LET batch_ids == PySlice(loc.messages, loc.j, IMPORTANT_BATCH)
           counted == [loc EXCEPT !.affected = @ + Len(batch_ids)]
       IN \/ /\ batchLog' = Append(batchLog,
                    [ids |-> batch_ids, ok |-> TRUE, lists |-> Len(listLog)])
             /\ IF Throttled(loc.j)
                THEN loc' = counted /\ pc' = "im74"
                ELSE ImportantAfterChunk(counted)
          \/ /\ batchLog' = Append(batchLog,
                    [ids |-> batch_ids, ok |-> FALSE, lists |-> Len(listLog)])
             /\ loc' = [loc EXCEPT !.error = BatchErr]
             /\ pc' = "im83"
    /\ UNCHANGED <<important_status, op, args, listLog, sleeps>>
    /\ ImportantOthers

\* Line 74: time.sleep(0.5)
ImportantSleep ==
    /\ pc = "im74"
    /\ sleeps' = Append(sleeps, [s |-> loc.i + 1, j |-> loc.j])
    /\ ImportantAfterChunk(loc)
    /\ UNCHANGED <<important_status, op, args, listLog, batchLog>>
    /\ ImportantOthers

ImportantFinalProgress ==
    pc = "im76" /\ ImportantWrite("progress", 100, "im77")

ImportantFinalDone ==
    pc = "im77" /\ ImportantWrite("done", TRUE, "im78")

ImportantFinalCount ==
    pc = "im78" /\ ImportantWrite("affected_count", loc.affected, "im80")

ImportantFinalMessage ==
    /\ pc = "im80"
    /\ ImportantWrite("message",
          ToString(loc.affected) \o " emails " \o
            (IF args.important THEN "marked as important"
             ELSE "unmarked as important"), "returned")

\* Lines 82-85: except Exception as e
ImportantExceptError ==
    pc = "im83" /\ ImportantWrite("error", loc.error, "im84")

ImportantExceptDone ==
    pc = "im84" /\ ImportantWrite("done", TRUE, "im85")

ImportantExceptMessage ==
    pc = "im85" /\ ImportantWrite("message", "Error: " \o loc.error, "returned")

Important ==
    \/ ImportantStart \/ ImportantNoSendersDone \/ ImportantNoSendersError
    \/ ImportantTotalSenders \/ ImportantMessage
    \/ ImportantAuth \/ ImportantAuthError \/ ImportantAuthDone
    \/ ImportantCurrentSender \/ ImportantSenderMessage
    \/ ImportantSenderProgress \/ ImportantList
    \/ ImportantBatch \/ ImportantSleep
    \/ ImportantFinalProgress \/ ImportantFinalDone \/ ImportantFinalCount
    \/ ImportantFinalMessage
    \/ ImportantExceptError \/ ImportantExceptDone \/ ImportantExceptMessage

-----------------------------------------------------------------------------

Next == MarkRead \/ Label \/ Important

Spec == Init /\ [][Next]_vars

\* The executor has returned and the trigger layer invokes an executor
\* again; the status dictionaries are module globals and stay as they are.
\* The model follows one such second invocation.
Rerun ==
    /\ pc = "returned"
    /\ prior = NoPrior
    /\ prior' = [op |-> op,
                 status |-> IF op = "mark_read" THEN mark_read_status
                            ELSE IF op = "mark_important" THEN important_status
                            ELSE label_operation_status]
    /\ pc' = "idle"
    /\ op' = "none"
    /\ args' = NoArgs
    /\ loc' = NoLocals
    /\ listLog' = <<>>
    /\ batchLog' = <<>>
    /\ sleeps' = <<>>
    /\ UNCHANGED <<mark_read_status, label_operation_status, important_status,
                   scope, polled>>

RerunNext == Next \/ Rerun

RerunSpec == NarrowInit /\ [][RerunNext]_vars

-----------------------------------------------------------------------------
(* The getters and a poller *)

\* What a getter hands out: the dictionary val, or with alias the live
\* dictionary itself; edited once the poller has written to what it got.

\* mark_read.py:131-133: return state.mark_read_status.copy()
GetMarkReadStatus ==
    [kind |-> "mark_read_status", alias |-> FALSE, edited |-> FALSE,
     val |-> mark_read_status]

\* labels.py:330-332: return state.label_operation_status.copy()
GetLabelOperationStatus ==
    [kind |-> "label_operation_status", alias |-> FALSE, edited |-> FALSE,
     val |-> label_operation_status]

\* return state.important_status, the dictionary itself.
GetImportantStatusLive ==
    [kind |-> "important_status", alias |-> TRUE, edited |-> FALSE,
     val |-> important_status]

\* important.py:88-90: return state.important_status.copy()
GetImportantStatus ==
    [kind |-> "important_status", alias |-> FALSE, edited |-> FALSE,
     val |-> important_status]

\* status.py: a status endpoint is served between two steps of the executor.
Poll ==
    /\ polled' \in {GetMarkReadStatus, GetLabelOperationStatus, GetImportantStatus}
    /\ UNCHANGED <<mark_read_status, label_operation_status, important_status,
                   pc, op, args, loc, listLog, batchLog, sleeps, scope, prior>>

\* The holder of a returned dictionary assigns to one of its keys:
\* d["message"] = "edited".  An alias writes through to the live dictionary.
PollerEdit ==
    /\ polled.kind # "none" /\ ~polled.edited
    /\ IF polled.alias
       THEN /\ polled' = [polled EXCEPT !.edited = TRUE]
            /\ mark_read_status' =
                  IF polled.kind = "mark_read_status"
                  THEN [mark_read_status EXCEPT !.message = "edited"]
                  ELSE mark_read_status
            /\ label_operation_status' =
                  IF polled.kind = "label_operation_status"
                  THEN [label_operation_status EXCEPT !.message = "edited"]
                  ELSE label_operation_status
            /\ important_status' =
                  IF polled.kind = "important_status"
                  THEN [important_status EXCEPT !.message = "edited"]
                  ELSE important_status
       ELSE /\ polled' = [polled EXCEPT !.edited = TRUE, !.val.message = "edited"]
            /\ UNCHANGED <<mark_read_status, label_operation_status,
                           important_status>>
    /\ UNCHANGED <<pc, op, args, loc, listLog, batchLog, sleeps, scope, prior>>

PollNext == Next \/ Poll \/ PollerEdit

PollSpec == NarrowInit /\ [][PollNext]_vars

\* Every call of this model returns or raises and every executor is
\* scheduled until it returns.
FairSpec == Spec /\ WF_vars(Next)

-----------------------------------------------------------------------------
(* Vocabulary of the properties *)

Returned == pc = "returned"

IsLabelOp == op \in {"apply_label", "remove_label"}
IsPerSenderOp == IsLabelOp \/ op = "mark_important"

\* The status dictionary the running executor publishes to.
Status ==
    IF op = "mark_read" THEN mark_read_status
    ELSE IF IsLabelOp THEN label_operation_status
    ELSE important_status

\* Its affected counter.
AffectedCount ==
    IF op = "mark_read" THEN mark_read_status.marked_count
    ELSE Status.affected_count

ErrorPresent == Status.error \notin {None, ""}

\* A step that starts a run (and resets the status of its kind).
StartStep == pc \in {"idle", "returned"} /\ pc' \notin {"idle", "returned"}

CeilDiv(n, c) == (n + c - 1) \div c

\* seqs[lo] \o ... \o seqs[hi], joined by halves.
RECURSIVE ConcatRange(_, _, _)
ConcatRange(seqs, lo, hi) ==
    IF lo > hi THEN <<>>
    ELSE IF lo = hi THEN seqs[lo]
    ELSE LET mid == (lo + hi) \div 2
         IN ConcatRange(seqs, lo, mid) \o ConcatRange(seqs, mid + 1, hi)

Concat(seqs) == ConcatRange(seqs, 1, Len(seqs))

\* The ids of the batchModify calls issued, in order, and of those that
\* succeeded.
SentIds == Concat([k \in 1..Len(batchLog) |-> batchLog[k].ids])
SucceededIds ==
    Concat([k \in 1..Len(batchLog) |->
              IF batchLog[k].ok THEN batchLog[k].ids ELSE <<>>])

SomeBatchFailed == \E k \in 1..Len(batchLog) : ~batchLog[k].ok
SomeListFailed == \E k \in 1..Len(listLog) : ~listLog[k].ok

\* The id list the chunk loop that is running (or ran last) partitions, its
\* chunk size, and the batchModify calls issued for that list.
ChunkedIds == IF IsLabelOp THEN loc.all_message_ids ELSE loc.messages
ChunkSize ==
    IF op = "mark_read" THEN 100 ELSE IF IsLabelOp THEN 1000 ELSE 100
ChunkCalls == { k \in 1..Len(batchLog) : batchLog[k].lists = Len(listLog) }

\* The ids of the pages returned for query s, in page order.
PagesOf(s) ==
    Concat([k \in 1..Len(listLog) |->
              IF listLog[k].s = s /\ listLog[k].ok
              THEN PageIds(s, listLog[k].off, listLog[k].n) ELSE <<>>])

SearchFailed(s) == \E k \in 1..Len(listLog) : listLog[k].s = s /\ ~listLog[k].ok

\* The search for query s ended on a page without continuation token.
SearchComplete(s) ==
    \E k \in 1..Len(listLog) :
        listLog[k].s = s /\ listLog[k].ok /\ ~listLog[k].next

\* The error strings one failing search or batch call can leave in errors.
ErrorStrings ==
    { Sender(k) \o ": " \o ListErr : k \in 1..Len(args.senders) }
       \cup { "Batch label error: " \o BatchErr, "Batch unlabel error: " \o BatchErr }

\* The published error names the sender: it is "Some errors: " followed by
\* at most three recorded errors, one of them the sender's.
Mentions(error, sender) ==
    \E n \in 1..3 : \E es \in [1..n -> ErrorStrings] :
        /\ error = "Some errors: " \o JoinSemi(es)
        /\ \E k \in 1..n : es[k] = sender \o ": " \o ListErr

-----------------------------------------------------------------------------
(* Partial failure *)

\* C1: in every operation, when one chunk's batchModify call fails and the
\* id list has at least two chunks, every later chunk is still submitted,
\* the final affected count is the total size of the chunks that succeeded,
\* and the run ends with done = true and a non-empty error.
C1_FailedChunkDoesNotAbort ==
    (Returned /\ SomeBatchFailed /\ CeilDiv(Len(ChunkedIds), ChunkSize) >= 2)
        => /\ Cardinality(ChunkCalls) = CeilDiv(Len(ChunkedIds), ChunkSize)
           /\ AffectedCount = Len(SucceededIds)
           /\ Status.done
           /\ ErrorPresent

\* C2: in label-apply and label-remove, when the search for some sender
\* raises, the run ends with done = true and an error that mentions that
\* sender, and every id found for the other senders is submitted in a
\* batchModify call.
C2_FailedSenderIsSkipped ==
    (Returned /\ IsLabelOp)
        => \A s \in 1..Len(args.senders) :
              SearchFailed(s)
                 => /\ Status.done
                    /\ Mentions(Status.error, args.senders[s])
                    /\ \A t \in 1..Len(args.senders) :
                          SearchComplete(t)
                             => \A k \in 1..Len(PagesOf(t)) :
                                   \E m \in 1..Len(SentIds) :
                                       SentIds[m] = PagesOf(t)[k]

\* The run was refused before its first provider call.
InputInvalid ==
    \/ op = "mark_read" /\ args.count < 0
    \/ IsLabelOp /\ (args.label_id \in {"", " "} \/ args.senders = <<>>)
    \/ op = "mark_important" /\ args.senders = <<>>

AuthFailed == loc.error = AuthErr

\* C3: every run reaches done = true, whatever the provider calls do; and if
\* a provider call raised, or validation or authentication failed, the
\* terminal status carries an error.
C3_EndsDoneWithError ==
    Returned
        => /\ Status.done
           /\ (SomeListFailed \/ SomeBatchFailed \/ InputInvalid \/ AuthFailed)
                 => ErrorPresent

\* The liveness half of C3: every run that starts returns with done = true.
C3_EveryRunReturns == (pc # "idle") ~> (Returned /\ Status.done)

\* C4: with an absent or invalid required input the run ends with done =
\* true, an error, progress still 0, and no list or batchModify call.
C4_InvalidInputRejected ==
    InputInvalid
        => /\ Status.progress = 0
           /\ listLog = <<>> /\ batchLog = <<>>
           /\ Returned => (Status.done /\ ErrorPresent)

C4_Witness ==
    /\ Returned /\ op = "remove_label" /\ args.label_id = " "
    /\ args.senders # <<>> /\ Status.done /\ ErrorPresent

-----------------------------------------------------------------------------
(* Search *)

FirstN(seq, n) == SubSeq(seq, 1, IF n < Len(seq) THEN n ELSE Len(seq))

\* The search of mark_emails_as_read is over and did not raise.
MarkReadSearchOver ==
    /\ op = "mark_read" /\ listLog # <<>> /\ ~SomeListFailed
    /\ pc \notin {"mr71", "mr82"}

\* C5: for mark-read with a positive count, the ids submitted for mutation
\* are never more than count; the list handed to the chunk loop is the first
\* count ids of the returned pages in page order, so it has exactly count
\* ids whenever the returned pages hold at least count; and a run without
\* error has submitted exactly that list.
C5_BoundedSearchTruncates ==
    (op = "mark_read" /\ args.count > 0)
        => /\ Len(SentIds) <= args.count
           /\ IsPrefix(SentIds, FirstN(PagesOf(0), args.count))
           /\ MarkReadSearchOver
                 => /\ loc.messages = FirstN(PagesOf(0), args.count)
                    /\ Len(PagesOf(0)) >= args.count
                          => Len(loc.messages) = args.count
           /\ (Returned /\ MarkReadSearchOver /\ ~ErrorPresent)
                 => SentIds = FirstN(PagesOf(0), args.count)

C5_Witness ==
    /\ Returned /\ op = "mark_read" /\ args.count = 507
    /\ Len(PagesOf(0)) = 1000 /\ ~ErrorPresent
    /\ mark_read_status.marked_count = 507

\* The ids of every search that did not raise, in sender order.
FoundIds ==
    Concat([s \in 1..Len(args.senders) |->
              IF SearchFailed(s) THEN <<>> ELSE PagesOf(s)])

\* The run was not refused and no call of it has raised so far.
NothingFailed ==
    ~InputInvalid /\ ~AuthFailed /\ ~SomeListFailed /\ ~SomeBatchFailed

\* C6: an unbounded search (mark-read with count = 0, every per-sender
\* search) requests pages until a response carries no continuation token:
\* a page with a token is followed by the next request of the same query.
\* The ids handed to mutation are the concatenation of the returned pages,
\* and a run in which nothing failed has submitted exactly them; mark-read
\* with count = 0 is not refused and marks every id returned.
C6_UnboundedSearchReadsAllPages ==
    ((op = "mark_read" /\ args.count = 0) \/ IsPerSenderOp)
        => /\ \A k \in 1..Len(listLog) :
                 (listLog[k].ok /\ listLog[k].next)
                    => IF k < Len(listLog)
                       THEN listLog[k + 1].s = listLog[k].s
                       ELSE pc \in {"mr82", "lb154", "im48"}
           /\ MarkReadSearchOver
                 => SearchComplete(0) /\ loc.messages = PagesOf(0)
           /\ (IsLabelOp /\ pc \in {"lb179", "lb189"})
                 => loc.all_message_ids = FoundIds
           /\ (op = "mark_important" /\ pc = "im68")
                 => /\ SearchComplete(loc.i + 1)
                    /\ loc.messages = PagesOf(loc.i + 1)
           /\ (Returned /\ NothingFailed)
                 => /\ SentIds = (IF op = "mark_read" THEN PagesOf(0) ELSE FoundIds)
                    /\ AffectedCount = Len(SentIds)
                    /\ ~ErrorPresent

C6_Witness ==
    /\ Returned /\ op = "mark_read" /\ args.count = 0 /\ NothingFailed
    /\ Len(listLog) = 2 /\ mark_read_status.marked_count = 507

-----------------------------------------------------------------------------
(* Chunking *)

\* C7: for mark-read (chunks of 100) and the label operations (chunks of
\* 1000), a run over n ids in which no batchModify call fails issues exactly
\* ceil(n/c) calls, the k-th carrying the k-th run of c consecutive ids (the
\* last one what is left), and ends with the affected count at n.
C7_ChunksCoverInOrder ==
    (/\ Returned /\ (op = "mark_read" \/ IsLabelOp)
     /\ ~InputInvalid /\ ~AuthFailed /\ ~SomeBatchFailed
     /\ op = "mark_read" => ~SomeListFailed)
        => LET n == Len(ChunkedIds)
               c == ChunkSize
           IN /\ Len(batchLog) = CeilDiv(n, c)
              /\ \A k \in 1..Len(batchLog) :
                    /\ Len(batchLog[k].ids) <= c
                    /\ batchLog[k].ids =
                          SubSeq(ChunkedIds, (k - 1) * c + 1,
                                 IF k * c < n THEN k * c ELSE n)
              /\ AffectedCount = n

C7_Witness ==
    /\ Returned /\ IsLabelOp /\ ~SomeBatchFailed
    /\ Len(batchLog) = 2 /\ label_operation_status.affected_count = 1507

-----------------------------------------------------------------------------
(* The published status *)

ProgressInRange ==
    /\ mark_read_status.progress \in 0..100
    /\ label_operation_status.progress \in 0..100
    /\ important_status.progress \in 0..100

ProgressNotDecreasing ==
    /\ mark_read_status'.progress >= mark_read_status.progress
    /\ label_operation_status'.progress >= label_operation_status.progress
    /\ important_status'.progress >= important_status.progress

\* C8: progress is always an integer in 0..100 and no write within a run
\* lowers it; only the reset that starts a run may.
C8_ProgressMonotone ==
    /\ []ProgressInRange
    /\ [][~StartStep => ProgressNotDecreasing]_vars

C8_Witness ==
    /\ IsLabelOp /\ pc = "lb197" /\ label_operation_status.progress = 79
    /\ label_operation_status.current_sender = 2

\* C9: once done is written true, no field of that status changes until the
\* next reset of its kind.
C9_FrozenAtDone ==
    [][~StartStep =>
          /\ mark_read_status.done => mark_read_status' = mark_read_status
          /\ label_operation_status.done
                => label_operation_status' = label_operation_status
          /\ important_status.done => important_status' = important_status
      ]_vars

-----------------------------------------------------------------------------
(* Phases *)

\* The search for sender s was over (on a page without token, or on a raise)
\* within the first m list calls.
SearchEndedBy(s, m) ==
    \E k \in 1..m : listLog[k].s = s /\ (~listLog[k].ok \/ ~listLog[k].next)

-----------------------------------------------------------------------------
(* Failures and scenarios *)

\* C11: in mark-important a search failure for one sender is recorded as an
\* error and only that sender is skipped: every sender after it in the input
\* list is still searched, and the ids found for it are still submitted.
C11_ImportantSkipsFailedSender ==
    (Returned /\ op = "mark_important")
        => \A s \in 1..Len(args.senders) :
              SearchFailed(s)
                 => /\ ErrorPresent
                    /\ \A t \in (s + 1)..Len(args.senders) :
                          /\ SearchEndedBy(t, Len(listLog))
                          /\ SomeBatchFailed
                                \/ \A k \in 1..Len(PagesOf(t)) :
                                      \E a \in 1..Len(SentIds) :
                                         SentIds[a] = PagesOf(t)[k]

\* C15: when get_gmail_service() returns an error, the executor ends with
\* done = true and error equal to that string, and issues no list and no
\* batchModify call.
C15_AuthErrorIsFatal ==
    AuthFailed
        => /\ listLog = <<>> /\ batchLog = <<>>
           /\ Returned => (Status.done /\ Status.error = AuthErr)

C15_Witness ==
    /\ Returned /\ op = "mark_important" /\ AuthFailed
    /\ important_status.done /\ important_status.error = AuthErr

\* C16: mark-read with count = k > 0, a provider holding m matching messages
\* and no failing call ends with done = true, no error and marked_count =
\* min(k, m).  (The search stops early only with k ids in hand; otherwise it
\* has read the mailbox to its last page, so the ids fetched are the m held.)
C16_MarkReadCountsMinimum ==
    (Returned /\ op = "mark_read" /\ args.count > 0 /\ NothingFailed)
        => LET fetched == Len(PagesOf(0))
           IN /\ mark_read_status.done
              /\ ~ErrorPresent
              /\ fetched < args.count => SearchComplete(0)
              /\ mark_read_status.marked_count =
                    IF args.count < fetched THEN args.count ELSE fetched

C16_Witness ==
    /\ Returned /\ op = "mark_read" /\ args.count = 150 /\ NothingFailed
    /\ Len(PagesOf(0)) = 7 /\ mark_read_status.marked_count = 7
    /\ Len(listLog) = 2

\* C17: mark-important, marking or unmarking, whose searches all return no
\* ids and in which no call fails, ends with done = true, affected_count = 0
\* and no error, without one batchModify call.
C17_ImportantNothingFound ==
    (/\ Returned /\ op = "mark_important" /\ NothingFailed
     /\ \A s \in 1..Len(args.senders) : PagesOf(s) = <<>>)
        => /\ important_status.done
           /\ important_status.affected_count = 0
           /\ ~ErrorPresent
           /\ batchLog = <<>>

C17_Witness ==
    /\ Returned /\ op = "mark_important" /\ NothingFailed
    /\ ~args.important /\ Len(args.senders) = 1 /\ Len(listLog) = 1
    /\ important_status.done /\ important_status.affected_count = 0

\* The number, counted from 1, of the chunk of one sender that starts at
\* offset j.
ChunkNumber(j) == (j \div IMPORTANT_BATCH) + 1

\* C18: in mark-important, while one sender's ids are mutated in chunks of
\* 100, a throttle pause happens after every 5th chunk (after chunks 5, 10,
\* 15, ...) and at no other point: every pause taken follows a chunk whose
\* number is a multiple of 5, and when the loop stands before the chunk that
\* follows such a chunk, the pause for it has been taken.
C18_PauseAfterEveryFifthChunk ==
    op = "mark_important"
        => /\ \A k \in 1..Len(sleeps) : ChunkNumber(sleeps[k].j) % 5 = 0
           /\ (pc = "im68" /\ loc.j > 0 /\ ChunkNumber(loc.j - IMPORTANT_BATCH) % 5 = 0)
                 => /\ sleeps # <<>>
                    /\ sleeps[Len(sleeps)] =
                          [s |-> loc.i + 1, j |-> loc.j - IMPORTANT_BATCH]

-----------------------------------------------------------------------------
(* Progress arithmetic *)

\* The chunk loop stands between two chunks or just past its last one, the
\* chunk sent last succeeded and its status writes are done.
AfterSuccessfulChunk ==
    /\ batchLog # <<>> /\ batchLog[Len(batchLog)].ok
    /\ \/ IsLabelOp /\ pc \in {"lb189", "lb204"}
       \/ op = "mark_read" /\ pc \in {"mr113", "mr123"}

\* The per-sender search loop of a label operation is running.
LabelDiscovery ==
    IsLabelOp /\ pc \in {"lb139", "lb140", "lb141", "lb145", "lb154"}

C19_WitnessMarkRead ==
    /\ AfterSuccessfulChunk /\ op = "mark_read" /\ pc = "mr113"
    /\ mark_read_status.marked_count = 100
    /\ mark_read_status.progress = 66

-----------------------------------------------------------------------------
(* The error list of the label operations *)

\* The error strings a label operation has recorded by the calls in the
\* logs: one per sender whose search raised, in input order, then the one of
\* the batchModify call that raised.
RecordedErrors ==
    Concat([s \in 1..Len(args.senders) |->
              IF SearchFailed(s) THEN <<args.senders[s] \o ": " \o ListErr>>
              ELSE <<>>])
       \o (IF SomeBatchFailed
           THEN <<(IF op = "apply_label" THEN "Batch label error: "
                   ELSE "Batch unlabel error: ") \o BatchErr>>
           ELSE <<>>)

\* C20: in label-apply and label-remove the final error field holds the
\* recorded error strings in the order they occurred (failing senders in
\* input order, then the batch error), joined with "; ": the first 3 of them
\* when more than 3 were recorded, all of them when 1 to 3 were.
C20_FirstThreeErrorsPublished ==
    (Returned /\ IsLabelOp /\ RecordedErrors # <<>>)
        => label_operation_status.error =
              "Some errors: " \o JoinSemi(PyHead(RecordedErrors, ERRORS_SHOWN))

-----------------------------------------------------------------------------
(* Runs that follow a run *)

\* The status dictionary an operation kind publishes to, and its defaults.
DictOf(kind) ==
    IF kind = "mark_read" THEN "mark_read_status"
    ELSE IF kind \in {"apply_label", "remove_label"} THEN "label_operation_status"
    ELSE "important_status"

Live(dict) ==
    IF dict = "mark_read_status" THEN mark_read_status
    ELSE IF dict = "label_operation_status" THEN label_operation_status
    ELSE important_status

DefaultsOf(dict) ==
    IF dict = "mark_read_status" THEN MarkReadDefaults
    ELSE IF dict = "label_operation_status" THEN LabelOperationDefaults
    ELSE ImportantDefaults

Dicts == {"mark_read_status", "label_operation_status", "important_status"}

\* A second run is under way or has returned.
SecondRun == prior # NoPrior /\ op # "none"

\* C12 as stated: each of the kinds mark-read, label-apply, label-remove and
\* mark-important has a status of its own, so a run of one kind never resets
\* or changes the terminal snapshot the previous run of a different kind
\* left (a label-remove run leaves the snapshot of a label-apply run as it
\* was).
C12_KindsHaveOwnStatus ==
    (SecondRun /\ op # prior.op) => Live(DictOf(prior.op)) = prior.status

\* C12, amended: there is one status dictionary for mark-read, one shared by
\* label-apply and label-remove, and one for mark-important; a run writes
\* only the dictionary of its kind: a dictionary of another kind keeps the
\* terminal snapshot of the previous run if that run published to it, and
\* its defaults otherwise.
C12_DictionariesDoNotInterfere ==
    op # "none"
        => \A d \in Dicts \ {DictOf(op)} :
              Live(d) = IF prior # NoPrior /\ DictOf(prior.op) = d
                        THEN prior.status ELSE DefaultsOf(d)

C12_Witness ==
    /\ SecondRun /\ Returned
    /\ prior.op = "apply_label" /\ prior.status.affected_count = 7
    /\ op = "mark_important" /\ important_status.affected_count = 507
    /\ label_operation_status = prior.status

\* The first position of each executor past its reset.
AtEntry == pc \in {"mr45", "mr50", "lb114", "lb120", "lb124", "im19", "im23"}

\* C13: every invocation of an executor, one that fails validation included,
\* resets its status first: whatever the terminal snapshot of the previous
\* run, the new run starts from progress = 0, done = false and no error (the
\* defaults), and its terminal snapshot shows no error and no counter of the
\* previous run: an error only when this run was refused or one of its calls
\* failed, and counters that are 0 or those of this run.
C13_ResetFirst ==
    /\ AtEntry => Status = DefaultsOf(DictOf(op))
    /\ Returned
          => /\ ErrorPresent
                   => (InputInvalid \/ AuthFailed \/ SomeListFailed \/ SomeBatchFailed)
             /\ AffectedCount \in {0, Len(SucceededIds)}
             /\ IsPerSenderOp => Status.total_senders \in {0, Len(args.senders)}

C13_Witness ==
    /\ SecondRun /\ Returned
    /\ prior.op = "mark_read" /\ prior.status.marked_count = 7
    /\ op = "mark_read" /\ InputInvalid
    /\ mark_read_status.marked_count = 0 /\ mark_read_status.progress = 0

-----------------------------------------------------------------------------
(* Getters *)

\* What the holder of a returned dictionary reads in it.
Seen(h) == IF h.alias THEN Live(h.kind) ELSE h.val

-----------------------------------------------------------------------------
(* Searches that fail, and calls that are not repeated *)

\* The queries of the run: 0 for the one search of mark-read, the senders'
\* positions for the per-sender operations.
Queries == IF op = "mark_read" THEN {0} ELSE 1..Len(args.senders)

\* C21: a partial search result is never mutated: in every operation, when a
\* page fetch of a search fails, on the first page or a later one, none of
\* the ids that search had already fetched is passed to a batchModify call
\* of the run.  The logs of a run only grow, so the property is stated over
\* the complete logs of the run, when it has returned.
C21_PartialResultNeverMutated ==
    Returned
        => \A s \in Queries :
              SearchFailed(s)
                 => LET partial == PagesOf(s)
                        fetched == { partial[a] : a \in 1..Len(partial) }
                    IN \A k \in 1..Len(batchLog) :
                          \A i \in 1..Len(batchLog[k].ids) :
                             batchLog[k].ids[i] \notin fetched

C21_Witness ==
    /\ Returned /\ IsLabelOp /\ Len(args.senders) = 2
    /\ SearchFailed(1) /\ Len(PagesOf(1)) = 500
    /\ Len(PagesOf(2)) = 7 /\ Len(SucceededIds) = 7

\* C22: in a bounded mark-read run no further page is requested once the
\* ids fetched have reached count: every page but the last one requested
\* carried a continuation token and left the total below count, and a search
\* that ended without a failure ended on a page without token or on the
\* first page that brought the total to count or more.
C22_NoPageBeyondCount ==
    (op = "mark_read" /\ args.count > 0)
        => /\ \A k \in 1..(Len(listLog) - 1) :
                 /\ listLog[k].ok /\ listLog[k].next
                 /\ listLog[k].off + listLog[k].n < args.count
           /\ MarkReadSearchOver
                 => LET last == listLog[Len(listLog)]
                    IN ~last.next \/ last.off + last.n >= args.count

C22_Witness ==
    /\ Returned /\ op = "mark_read" /\ args.count = 500
    /\ Len(listLog) = 1 /\ listLog[1].n = 500 /\ listLog[1].next
    /\ mark_read_status.marked_count = 500

\* C23: there is no retry within a run: after a search for a sender has
\* failed no further list call is issued for that sender, after a batchModify
\* call has failed none of its ids is sent again, and no id is sent in two
\* batchModify calls of the run.
C23_NoRetry ==
    /\ \A k \in 1..Len(listLog) :
          ~listLog[k].ok
             => \A m \in (k + 1)..Len(listLog) : listLog[m].s # listLog[k].s
    /\ LET sent == SentIds
       IN Cardinality({ sent[a] : a \in 1..Len(sent) }) = Len(sent)

C23_Witness ==
    /\ Returned /\ IsLabelOp /\ Len(args.senders) = 2
    /\ SearchFailed(1) /\ Len(PagesOf(1)) = 500
    /\ Len(batchLog) = 1 /\ SomeBatchFailed /\ Len(SentIds) = 507

-----------------------------------------------------------------------------
(* Sender counters *)

\* total_senders has been written: the run passed the validation (and, in
\* the label operations, the authentication) and the write that follows.
SenderCountPublished ==
    /\ IsPerSenderOp /\ ~InputInvalid
    /\ IsLabelOp => (~AuthFailed /\ pc \notin {"lb124", "lb126", "lb127", "lb131"})
    /\ op = "mark_important" => pc # "im23"

\* C24: in the per-sender operations the senders are searched one at a time
\* in input list order: each list call is for the sender current_sender
\* counts, and never for a sender before one already searched.  Once
\* total_senders is published it is the length of the input list and
\* 0 <= current_sender <= total_senders; current_sender changes only by
\* growing by exactly 1.
C24_SendersInOrder ==
    /\ [](SenderCountPublished
             => /\ Status.total_senders = Len(args.senders)
                /\ Status.current_sender >= 0
                /\ Status.current_sender <= Status.total_senders)
    /\ [](IsPerSenderOp
             => \A k \in 1..Len(listLog) :
                   /\ listLog[k].s \in 1..Len(args.senders)
                   /\ \A m \in 1..k : listLog[m].s <= listLog[k].s)
    /\ [][IsPerSenderOp' /\ ~StartStep
             => /\ Len(listLog') > Len(listLog)
                      => listLog'[Len(listLog')].s = Status.current_sender
                /\ Status'.current_sender # Status.current_sender
                      => Status'.current_sender = Status.current_sender + 1]_vars

C24_Witness ==
    /\ Returned /\ op = "mark_important" /\ SenderCountPublished
    /\ important_status.total_senders = 2 /\ important_status.current_sender = 2
    /\ Len(listLog) = 3 /\ listLog[1].s = 1 /\ listLog[3].s = 2

-----------------------------------------------------------------------------
(* Terminal snapshots *)

\* C25: in every terminal state (done = true) of every operation, runs that
\* ended on an error included, the published affected counter (affected_count
\* or marked_count) equals the number of message ids in the batchModify
\* calls that succeeded during the run.
C25_CounterIsSucceededIds ==
    (Returned /\ Status.done) => AffectedCount = Len(SucceededIds)

\* C26: with one run of a kind active, every list and batchModify call of
\* the run happens before done is written true: once done = true for the
\* kind, no step of the run adds a provider call.
C26_NoCallAfterDone ==
    [][(Status.done /\ ~StartStep) => UNCHANGED <<listLog, batchLog>>]_vars

C26_Witness ==
    /\ op = "remove_label" /\ pc = "lb206" /\ label_operation_status.done
    /\ Len(listLog) = 3 /\ Len(batchLog) = 2

\* C27: whenever a run that passed validation and authentication ends with
\* done = true and no error, its progress is 100, runs whose search found no
\* messages included.
C27_SuccessIsHundredPercent ==
    (Returned /\ ~InputInvalid /\ ~AuthFailed /\ Status.done /\ ~ErrorPresent)
        => Status.progress = 100

====
